---- MODULE Spec2Model ----
(***************************************************************************)
(* Model of wgnlpy/wireguard.py: the WireGuard class, a generic-netlink    *)
(* client that builds WG_CMD_SET_DEVICE requests (set_interface,           *)
(* remove_peers, set_peer, replace_allowedips) and reassembles the         *)
(* fragments of a WG_CMD_GET_DEVICE dump into a WireGuardInfo snapshot     *)
(* (get_interface).                                                        *)
(*                                                                         *)
(* Python values are records tagged by their type in field t, so that any  *)
(* two of them can be compared: None, bytes, str, int, bool.  A bytes      *)
(* value is abstracted to its length and an identity val (val = 0 is the   *)
(* all-zero string); a str holding base64 text is abstracted to its number *)
(* of alphabet characters, its number of trailing '=' and the identity of  *)
(* the bytes it encodes.  Python's assert statements are modelled as       *)
(* executed (the interpreter's default mode).                              *)
(***************************************************************************)
EXTENDS Integers, Sequences, FiniteSets, TLC

VARIABLES
    pc,      \* "idle" after construction, "returned" once the one call is over
    call,    \* the public method invoked and its arguments
    reply,   \* get_interface: the messages nlm_request returned for the dump
    sent,    \* the messages handed to the socket's nlm_request, in order
    ret      \* what the call returned, or the exception it raised

vars == <<pc, call, reply, sent, ret>>

----------------------------------------------------------------------------
(* Bounds of the model.                                                    *)

MaxPeers     == 2   \* peer records in one dump response
MaxFragments == 2   \* messages in one dump response
MaxIPs       == 2   \* allowed-IP entries of one peer record / of allowedips
MaxKeys      == 2   \* public keys passed to remove_peers / replace_allowedips

(* The key length every assert of the source compares against.             *)
KeyLen == 32

----------------------------------------------------------------------------
(* Python values.                                                          *)

None         == [t |-> "None"]
Bytes(n, v)  == [t |-> "bytes", len |-> n, val |-> v]
Str(c, p, v) == [t |-> "str", chars |-> c, pad |-> p, val |-> v]
Num(n)       == [t |-> "int", v |-> n]
Bool(b)      == [t |-> "bool", v |-> b]
Name(s)      == [t |-> "name", s |-> s]
Flag(f)      == [t |-> "flag", v |-> f]
List(s)      == [t |-> "list", items |-> s]
Raise(e)     == [t |-> "raise", exc |-> e]

IsRaise(x) == x.t = "raise"

(* len(x) of a bytes, bytearray or str value.                              *)
len(x) == IF x.t = "bytes" THEN x.len ELSE x.chars + x.pad

(* bytes(n): n zero bytes.                                                 *)
bytes(n) == Bytes(n, 0)

(* isinstance(x, (bytes, bytearray))                                       *)
isinstance_bytes(x) == x.t = "bytes"

(* Truth value of an argument: None and False are false.                   *)
truthy(x) == x.t = "bool" /\ x.v

(* base64.b64decode(s) of a str, non-validating: every 4 alphabet          *)
(* characters give 3 bytes; a remainder of 2 or 3 characters gives 1 or 2  *)
(* more bytes and needs 2 or 1 '='; a remainder of 1 is an error.          *)
b64decode(s) ==
    LET n == s.chars
        r == n % 4
    IN  IF r = 1 \/ (r = 2 /\ s.pad < 2) \/ (r = 3 /\ s.pad < 1)
        THEN Raise("binascii.Error")
        ELSE Bytes((3 * n) \div 4, s.val)

(* nla.get_attr(name): the value of the first attribute of that name, or   *)
(* None.                                                                   *)
get_attr(msg, name) ==
    LET RECURSIVE scan(_)
        scan(i) == IF i > Len(msg.attrs) THEN None
                   ELSE IF msg.attrs[i][1] = name THEN msg.attrs[i][2]
                   ELSE scan(i + 1)
    IN  scan(1)

(* `x or []` for a nested attribute list.                                  *)
or_empty(x) == IF x = None THEN <<>> ELSE x.items

(* msg['attrs'].append((name, value))                                      *)
append(msg, name, value) == [msg EXCEPT !.attrs = Append(@, <<name, value>>)]

(* device.get_device(), device.set_device(), device.peer(): fresh          *)
(* messages with no attribute.                                             *)
get_device == [t |-> "device", cmd |-> "WG_CMD_GET_DEVICE", attrs |-> <<>>]
set_device == [t |-> "device", cmd |-> "WG_CMD_SET_DEVICE", attrs |-> <<>>]
peer_nla   == [t |-> "peer", attrs |-> <<>>]

(* allowedip.network(): the IP network of an allowed-IP attribute record.  *)
network(a) == [t |-> "ip_network", addr |-> a.addr, prefixlen |-> a.cidr]

----------------------------------------------------------------------------
(* get_interface: WireGuardInfo.__init__                                   *)

(* in_peers that finds no key: every record starts a new entry.            *)
in_peers_never(peers, key) == FALSE

(* `public_key not in self.peers`; the dict is kept as the sequence of its *)
(* (key, value) pairs in insertion order.                                  *)
in_peers(peers, key) == \E i \in 1..Len(peers) : peers[i][1] = key

peers_index(peers, key) == CHOOSE i \in 1..Len(peers) : peers[i][1] = key

(* peer_preshared_key that hands out the key whatever the flag.            *)
peer_preshared_key_spilled(peer, spill_preshared_keys) ==
    LET preshared_key == get_attr(peer, "WGPEER_A_PRESHARED_KEY")
    IN  IF preshared_key = None \/ len(preshared_key) = KeyLen
        THEN preshared_key
        ELSE Raise("AssertionError")

(* Lines 47-51: the preshared key of a new peer, or the failed assert.     *)
peer_preshared_key(peer, spill_preshared_keys) ==
    LET preshared_key == get_attr(peer, "WGPEER_A_PRESHARED_KEY")
    IN  IF ~spill_preshared_keys
        THEN Bool(preshared_key # None /\ preshared_key # bytes(KeyLen))
        ELSE IF preshared_key = None \/ len(preshared_key) = KeyLen
             THEN preshared_key
             ELSE Raise("AssertionError")

(* Lines 52-60: the dict entry created for a new peer.                     *)
new_peer(peer, preshared_key) ==
    [ preshared_key |-> preshared_key,
      last_handshake_time |-> get_attr(peer, "WGPEER_A_LAST_HANDSHAKE_TIME"),
      persistent_keepalive_interval |->
          get_attr(peer, "WGPEER_A_PERSISTENT_KEEPALIVE_INTERVAL"),
      tx_bytes |-> get_attr(peer, "WGPEER_A_TX_BYTES"),
      rx_bytes |-> get_attr(peer, "WGPEER_A_RX_BYTES"),
      allowedips |-> <<>>,
      protocol_version |-> get_attr(peer, "WGPEER_A_PROTOCOL_VERSION") ]

(* Lines 61-62: append the networks of the record's allowed IPs.           *)
RECURSIVE append_allowedips(_, _, _)
append_allowedips(peers, public_key, allowedips) ==
    IF allowedips = <<>> THEN peers
    ELSE LET i == peers_index(peers, public_key)
             p == [peers EXCEPT ![i][2].allowedips =
                       Append(@, network(Head(allowedips)))]
         IN  append_allowedips(p, public_key, Tail(allowedips))

(* Lines 45-62: one iteration of the inner loop.  acc is the dict so far,  *)
(* or the exception raised.                                                *)
add_peer(acc, peer, spill_preshared_keys) ==
    IF IsRaise(acc) THEN acc
    ELSE
    LET public_key == get_attr(peer, "WGPEER_A_PUBLIC_KEY")
        allowedips == or_empty(get_attr(peer, "WGPEER_A_ALLOWEDIPS"))
    IN  IF ~in_peers(acc.items, public_key)
        THEN LET preshared_key == peer_preshared_key(peer, spill_preshared_keys)
             IN  IF IsRaise(preshared_key) THEN preshared_key
                 ELSE List(append_allowedips(
                          Append(acc.items,
                                 <<public_key, new_peer(peer, preshared_key)>>),
                          public_key, allowedips))
        ELSE List(append_allowedips(acc.items, public_key, allowedips))

(* Line 44: the inner loop over one message's peer list.                   *)
RECURSIVE add_peers(_, _, _)
add_peers(acc, peerlist, spill_preshared_keys) ==
    IF peerlist = <<>> THEN acc
    ELSE add_peers(add_peer(acc, Head(peerlist), spill_preshared_keys),
                   Tail(peerlist), spill_preshared_keys)

(* Line 43: the outer loop over the messages.                              *)
RECURSIVE add_messages(_, _, _)
add_messages(acc, messages, spill_preshared_keys) ==
    IF messages = <<>> THEN acc
    ELSE add_messages(
             add_peers(acc, or_empty(get_attr(Head(messages), "WGDEVICE_A_PEERS")),
                       spill_preshared_keys),
             Tail(messages), spill_preshared_keys)

(* private_key_attr that reads the key whatever the flag.                  *)
private_key_attr_always(messages, spill_private_key) ==
    LET private_key == get_attr(messages[1], "WGDEVICE_A_PRIVATE_KEY")
    IN  IF private_key = None \/ len(private_key) = KeyLen
        THEN [t |-> "attr", set |-> TRUE, value |-> private_key]
        ELSE Raise("AssertionError")

(* Lines 31-33: the private_key attribute of the object: not set, set to  *)
(* the key read, or the failed assert.                                     *)
private_key_attr(messages, spill_private_key) ==
    IF spill_private_key
    THEN LET private_key == get_attr(messages[1], "WGDEVICE_A_PRIVATE_KEY")
         IN  IF private_key = None \/ len(private_key) = KeyLen
             THEN [t |-> "attr", set |-> TRUE, value |-> private_key]
             ELSE Raise("AssertionError")
    ELSE [t |-> "attr", set |-> FALSE]

(* Lines 28-62.  The object has a private_key attribute only when          *)
(* spill_private_key is set.                                               *)
WireGuardInfo(messages, ifname, spill_private_key, spill_preshared_keys) ==
    LET private_key == private_key_attr(messages, spill_private_key)
        public_key  == get_attr(messages[1], "WGDEVICE_A_PUBLIC_KEY")
        base == [ t           |-> "WireGuardInfo",
                  ifindex     |-> get_attr(messages[1], "WGDEVICE_A_IFINDEX"),
                  ifname      |-> get_attr(messages[1], "WGDEVICE_A_IFNAME"),
                  public_key  |-> public_key,
                  listen_port |-> get_attr(messages[1], "WGDEVICE_A_LISTEN_PORT"),
                  fwmark      |-> get_attr(messages[1], "WGDEVICE_A_FWMARK") ]
        peers == add_messages(List(<<>>), messages, spill_preshared_keys)
    IN  IF IsRaise(private_key) THEN private_key
        ELSE IF base.ifname # ifname THEN Raise("AssertionError")
        ELSE IF ~(public_key = None \/ len(public_key) = KeyLen)
        THEN Raise("AssertionError")
        ELSE IF IsRaise(peers) THEN peers
        ELSE IF private_key.set
        THEN [ f \in DOMAIN base \cup {"private_key", "peers"} |->
                   IF f = "private_key" THEN private_key.value
                   ELSE IF f = "peers" THEN peers.items ELSE base[f] ]
        ELSE [ f \in DOMAIN base \cup {"peers"} |->
                   IF f = "peers" THEN peers.items ELSE base[f] ]

(* Lines 64-72: WireGuardInfo.__repr__, the dict that is printed.          *)
repr(info) ==
    [ ifindex     |-> info.ifindex,
      ifname      |-> info.ifname,
      public_key  |-> info.public_key,
      listen_port |-> info.listen_port,
      fwmark      |-> info.fwmark,
      peers       |-> info.peers ]

----------------------------------------------------------------------------
(* The four mutation builders.  Each returns the device message it hands   *)
(* to __set, or the exception raised before that.                          *)

(* append_peer inserting at the front of the peer list.                    *)
append_peer_front(device, peer) ==
    LET i == CHOOSE k \in 1..Len(device.attrs) :
                 device.attrs[k][1] = "WGDEVICE_A_PEERS"
    IN  [device EXCEPT !.attrs[i][2].items = <<peer>> \o @]

(* device.get_attr('WGDEVICE_A_PEERS').append(peer)                        *)
append_peer(device, peer) ==
    LET i == CHOOSE k \in 1..Len(device.attrs) :
                 /\ device.attrs[k][1] = "WGDEVICE_A_PEERS"
                 /\ \A j \in 1..(k - 1) : device.attrs[j][1] # "WGDEVICE_A_PEERS"
    IN  [device EXCEPT !.attrs[i][2].items = Append(@, peer)]

(* decode_public_key without the decoding: the text is measured as given.  *)
decode_public_key_asis(public_key) == public_key

(* Lines 107-108, 129-130: a public key given as text is base64-decoded.   *)
decode_public_key(public_key) ==
    IF ~isinstance_bytes(public_key) THEN b64decode(public_key) ELSE public_key

(* sockaddr.frob(endpoint) and allowedip.frob(allowedip): the attribute    *)
(* records built from the caller's endpoint and network.                   *)
sockaddr_frob(endpoint) == [t |-> "sockaddr", endpoint |-> endpoint]
allowedip_frob(ip) ==
    [t |-> "allowedip", family |-> "AF_INET", addr |-> ip.addr,
     cidr |-> ip.prefixlen]

(* set_interface_device that never sets the flag.                          *)
set_interface_device_noflag(ifname, private_key, listen_port, fwmark, replace_peers) ==
    LET d0 == append(set_device, "WGDEVICE_A_IFNAME", ifname)
        d2 == IF private_key # None
              THEN append(d0, "WGDEVICE_A_PRIVATE_KEY", private_key)
              ELSE d0
        d3 == IF listen_port # None
              THEN append(d2, "WGDEVICE_A_LISTEN_PORT", listen_port)
              ELSE d2
        d4 == IF fwmark # None
              THEN append(d3, "WGDEVICE_A_FWMARK", fwmark)
              ELSE d3
    IN  IF private_key # None /\ len(private_key) # KeyLen
        THEN Raise("AssertionError")
        ELSE d4

(* Lines 83-97.                                                            *)
set_interface_device(ifname, private_key, listen_port, fwmark, replace_peers) ==
    LET d0 == append(set_device, "WGDEVICE_A_IFNAME", ifname)
        d1 == IF truthy(replace_peers)
              THEN append(d0, "WGDEVICE_A_FLAGS", Flag("REPLACE_PEERS"))
              ELSE d0
        d2 == IF private_key # None
              THEN append(d1, "WGDEVICE_A_PRIVATE_KEY", private_key)
              ELSE d1
        d3 == IF listen_port # None
              THEN append(d2, "WGDEVICE_A_LISTEN_PORT", listen_port)
              ELSE d2
        d4 == IF fwmark # None
              THEN append(d3, "WGDEVICE_A_FWMARK", fwmark)
              ELSE d3
    IN  IF private_key # None /\ len(private_key) # KeyLen
        THEN Raise("AssertionError")
        ELSE d4

(* Lines 106-114: the loop of remove_peers, from the device built so far.  *)
RECURSIVE remove_peers_loop(_, _)
remove_peers_loop(device, public_keys) ==
    IF public_keys = <<>> THEN device
    ELSE LET public_key == decode_public_key(Head(public_keys))
             p1 == append(peer_nla, "WGPEER_A_PUBLIC_KEY", public_key)
             p2 == append(p1, "WGPEER_A_FLAGS", Flag("REMOVE_ME"))
         IN  IF IsRaise(public_key) THEN public_key
             ELSE IF len(public_key) # KeyLen THEN Raise("AssertionError")
             ELSE remove_peers_loop(append_peer(device, p2), Tail(public_keys))

(* Lines 102-114.                                                          *)
remove_peers_device(ifname, public_keys) ==
    LET d0 == append(set_device, "WGDEVICE_A_IFNAME", ifname)
        d1 == append(d0, "WGDEVICE_A_PEERS", List(<<>>))
    IN  remove_peers_loop(d1, public_keys)

(* infer_replace_allowedips letting allowedips override an explicit False. *)
infer_replace_allowedips_override(replace_allowedips, allowedips) ==
    IF allowedips # None THEN Bool(TRUE) ELSE replace_allowedips

(* Lines 136-137: the default of replace_allowedips.                       *)
infer_replace_allowedips(replace_allowedips, allowedips) ==
    IF replace_allowedips = None /\ allowedips # None
    THEN Bool(TRUE)
    ELSE replace_allowedips

(* Lines 152-156: the allowed-IP list of set_peer.                         *)
frob_allowedips(allowedips) ==
    List([i \in 1..Len(allowedips.items) |-> allowedip_frob(allowedips.items[i])])

(* Lines 126-158.                                                          *)
set_peer_device(ifname, public_key_arg, preshared_key, endpoint, persistent_keepalive_interval, allowedips, replace_allowedips_arg) ==
    LET d0 == append(set_device, "WGDEVICE_A_IFNAME", ifname)
        public_key == decode_public_key(public_key_arg)
        p0 == append(peer_nla, "WGPEER_A_PUBLIC_KEY", public_key)
        replace_allowedips ==
            infer_replace_allowedips(replace_allowedips_arg, allowedips)
        p1 == IF truthy(replace_allowedips)
              THEN append(p0, "WGPEER_A_FLAGS", Flag("REPLACE_ALLOWEDIPS"))
              ELSE p0
        p2 == IF preshared_key # None
              THEN append(p1, "WGPEER_A_PRESHARED_KEY", preshared_key)
              ELSE p1
        p3 == IF endpoint # None
              THEN append(p2, "WGPEER_A_ENDPOINT", sockaddr_frob(endpoint))
              ELSE p2
        p4 == IF persistent_keepalive_interval # None
              THEN append(p3, "WGPEER_A_PERSISTENT_KEEPALIVE_INTERVAL",
                          persistent_keepalive_interval)
              ELSE p3
        p5 == IF allowedips # None
              THEN append(p4, "WGPEER_A_ALLOWEDIPS", frob_allowedips(allowedips))
              ELSE p4
    IN  IF IsRaise(public_key) THEN public_key
        ELSE IF len(public_key) # KeyLen THEN Raise("AssertionError")
        ELSE IF preshared_key # None /\ len(preshared_key) # KeyLen
        THEN Raise("AssertionError")
        ELSE append(d0, "WGDEVICE_A_PEERS", List(<<p5>>))

(* replace_allowedips_loop carrying the flag of remove_peers.              *)
replace_allowedips_loop_remove(device, public_keys) ==
    remove_peers_loop(device, public_keys)

(* Lines 166-174: the loop of replace_allowedips.                          *)
RECURSIVE replace_allowedips_loop(_, _)
replace_allowedips_loop(device, public_keys) ==
    IF public_keys = <<>> THEN device
    ELSE LET public_key == decode_public_key(Head(public_keys))
             p1 == append(peer_nla, "WGPEER_A_PUBLIC_KEY", public_key)
             p2 == append(p1, "WGPEER_A_FLAGS", Flag("REPLACE_ALLOWEDIPS"))
         IN  IF IsRaise(public_key) THEN public_key
             ELSE IF len(public_key) # KeyLen THEN Raise("AssertionError")
             ELSE replace_allowedips_loop(append_peer(device, p2),
                                          Tail(public_keys))

(* Lines 162-174.                                                          *)
replace_allowedips_device(ifname, public_keys) ==
    LET d0 == append(set_device, "WGDEVICE_A_IFNAME", ifname)
        d1 == append(d0, "WGDEVICE_A_PEERS", List(<<>>))
    IN  replace_allowedips_loop(d1, public_keys)

(* __get and __set: the request as nlm_request receives it.                *)
WireGuard__get(device) == [msg |-> device, flags |-> "ACK|REQUEST|DUMP"]
WireGuard__set(device) == [msg |-> device, flags |-> "ACK|REQUEST"]

----------------------------------------------------------------------------
(* The arguments callers pass and the dump responses the kernel returns.   *)

SeqsUpTo(S, n) == UNION { [1..k -> S] : k \in 0..n }

wg0 == Name("wg0")

(* Public keys: bytes of 32 bytes, and text that decodes to 32 bytes.      *)
ValidPublicKeys == { Bytes(KeyLen, 1), Bytes(KeyLen, 2), Str(43, 1, 3) }

(* Bytes of another length, text that decodes to 33, 31 and 24 bytes (the  *)
(* last one 32 characters long), and text with a missing '='.              *)
InvalidPublicKeys ==
    { Bytes(KeyLen - 1, 1), Bytes(KeyLen + 1, 1), Bytes(0, 0),
      Str(44, 0, 1), Str(42, 2, 1), Str(32, 0, 1), Str(43, 0, 1) }

PublicKeyArgs == ValidPublicKeys \cup InvalidPublicKeys

(* Private and preshared keys: these are never decoded, len() is taken of  *)
(* the value as given.                                                     *)
SecretKeyArgs ==
    { Bytes(KeyLen, 1), Bytes(KeyLen, 0), Bytes(KeyLen - 1, 1),
      Bytes(KeyLen + 1, 1), Bytes(0, 0), Str(43, 1, 1), Str(32, 0, 1) }

Network(i) == [addr |-> i, prefixlen |-> 32]

AllowedIPArgs ==
    {None} \cup { List(s) : s \in SeqsUpTo({Network(1), Network(2)}, MaxIPs) }

(* One peer record of a dump.  pk is the public key or None; tag selects   *)
(* the scalar attributes: 0 none at all (a record continuing a peer in a   *)
(* later fragment), 1 a zero preshared key, 2 a non-zero preshared key,    *)
(* 3 a preshared key of 31 bytes, each with its own counters; the allowed  *)
(* IPs are n networks numbered from first.                                 *)
PresharedKeyOf(tag) ==
    CASE tag = 1 -> bytes(KeyLen)
      [] tag = 2 -> Bytes(KeyLen, 1)
      [] tag = 3 -> Bytes(KeyLen - 1, 1)

ScalarOf(tag) == tag

AllowedIpNla(i) ==
    [t |-> "allowedip", family |-> "AF_INET", addr |-> i, cidr |-> 32]

PeerRecord(pk, tag, first, n) ==
    [ t |-> "peer",
      attrs |->
          (IF pk = None THEN <<>> ELSE << <<"WGPEER_A_PUBLIC_KEY", pk>> >>)
       \o (IF tag = 0 THEN <<>> ELSE
           << <<"WGPEER_A_PRESHARED_KEY", PresharedKeyOf(tag)>>,
              <<"WGPEER_A_LAST_HANDSHAKE_TIME", Num(1000 + ScalarOf(tag))>>,
              <<"WGPEER_A_PERSISTENT_KEEPALIVE_INTERVAL", Num(20 + ScalarOf(tag))>>,
              <<"WGPEER_A_TX_BYTES", Num(100 + ScalarOf(tag))>>,
              <<"WGPEER_A_RX_BYTES", Num(200 + ScalarOf(tag))>>,
              <<"WGPEER_A_PROTOCOL_VERSION", Num(ScalarOf(tag))>> >>)
       \o (IF n = 0 THEN <<>> ELSE
           << <<"WGPEER_A_ALLOWEDIPS",
                List([j \in 1..n |-> AllowedIpNla(first + j)])>> >>) ]

(* The records of a dump from their shapes; record i's networks are        *)
(* numbered 10*i+1, 10*i+2, ...: an allowed IP belongs to one peer only.   *)
PeerRecords(shapes) ==
    [i \in 1..Len(shapes) |->
        PeerRecord(shapes[i].pk, shapes[i].tag, 10 * i, shapes[i].n)]

(* The ways to cut n records into at most MaxFragments non-empty messages: *)
(* the sequences of message sizes.                                         *)
RECURSIVE SumTo(_, _)
SumTo(c, i) == IF i = 0 THEN 0 ELSE c[i] + SumTo(c, i - 1)

Cuts(n) ==
    IF n = 0 THEN { <<0>> }
    ELSE { c \in UNION { [1..k -> 1..n] : k \in 1..MaxFragments } :
             SumTo(c, Len(c)) = n }

(* Message k of a dump: the first one carries the device attributes, the   *)
(* later ones the interface only; each carries its share of the records.   *)
DumpMessage(dev, records, cut, k) ==
    LET from == SumTo(cut, k - 1)
        part == [i \in 1..cut[k] |-> records[from + i]]
        head == << <<"WGDEVICE_A_IFINDEX", Num(7)>>,
                   <<"WGDEVICE_A_IFNAME", dev.ifname>> >>
        keys == (IF dev.private_key = None THEN <<>>
                 ELSE << <<"WGDEVICE_A_PRIVATE_KEY", dev.private_key>> >>)
             \o (IF dev.public_key = None THEN <<>>
                 ELSE << <<"WGDEVICE_A_PUBLIC_KEY", dev.public_key>> >>)
             \o << <<"WGDEVICE_A_LISTEN_PORT", Num(51820)>>,
                   <<"WGDEVICE_A_FWMARK", Num(0)>> >>
        peers == IF dev.peers_absent /\ part = <<>> THEN <<>>
                 ELSE << <<"WGDEVICE_A_PEERS", List(part)>> >>
    IN  [ t |-> "device", cmd |-> "WG_CMD_GET_DEVICE",
          attrs |-> head \o (IF k = 1 THEN keys ELSE <<>>) \o peers ]

Dump(dev, shapes, cut) ==
    [k \in 1..Len(cut) |-> DumpMessage(dev, PeerRecords(shapes), cut, k)]

(* The device of a well-formed dump of wg0.                                *)
GoodDevice ==
    [ ifname |-> wg0, private_key |-> Bytes(KeyLen, 5),
      public_key |-> Bytes(KeyLen, 6), peers_absent |-> FALSE ]

(* The devices of the dumps that vary the device attributes; these dumps   *)
(* have no peer or one peer.                                               *)
Devices ==
    [ ifname : {wg0, Name("wg1")},
      private_key : {None, Bytes(KeyLen, 5), Bytes(KeyLen, 4),
                     Bytes(KeyLen - 1, 5)},
      public_key : {None, Bytes(KeyLen, 6), Bytes(KeyLen + 1, 6)},
      peers_absent : BOOLEAN ]

DeviceShapes == { <<>>, <<[pk |-> Bytes(KeyLen, 1), tag |-> 2, n |-> 1]>> }

(* Well-formed records of two peers.                                       *)
MergeShapes ==
    SeqsUpTo([ pk : {Bytes(KeyLen, 1), Bytes(KeyLen, 2)}, tag : 0..2,
               n : 0..MaxIPs ], MaxPeers)

(* Records that lack the public key, or carry a public or preshared key of *)
(* another length.                                                         *)
KeyShapes ==
    SeqsUpTo([ pk : {Bytes(KeyLen, 1), None, Bytes(KeyLen - 1, 1)},
               tag : {0, 1, 3}, n : 0..1 ], MaxPeers)

----------------------------------------------------------------------------
(* The public methods.                                                     *)

Init ==
    /\ pc = "idle"
    /\ call = [op |-> "none"]
    /\ reply = <<>>
    /\ sent = <<>>
    /\ ret = None

(* Lines 22-74, for one choice of arguments and of the kernel's response.  *)
get_interface_call(c) ==
    LET device == append(get_device, "WGDEVICE_A_IFNAME", c.ifname)
    IN  /\ call' = [ op |-> "get_interface", ifname |-> c.ifname,
                     spill_private_key |-> c.spill_private_key,
                     spill_preshared_keys |-> c.spill_preshared_keys ]
        /\ sent' = Append(sent, WireGuard__get(device))
        /\ reply' = c.messages
        /\ ret' = WireGuardInfo(c.messages, c.ifname, c.spill_private_key,
                                c.spill_preshared_keys)

(* The call on a dump of peers cut into fragments, with the private key    *)
(* kept undisclosed; or on a dump that varies the device attributes, under *)
(* all four settings of the disclosure flags.                              *)
get_interface ==
    /\ pc = "idle"
    /\ \/ \E shapes \in MergeShapes \cup KeyShapes :
          \E cut \in Cuts(Len(shapes)), spill_preshared_keys \in BOOLEAN :
             get_interface_call(
                 [ ifname |-> wg0, spill_private_key |-> FALSE,
                   spill_preshared_keys |-> spill_preshared_keys,
                   messages |-> Dump(GoodDevice, shapes, cut) ])
       \/ \E dev \in Devices, shapes \in DeviceShapes,
             spill_private_key \in BOOLEAN, spill_preshared_keys \in BOOLEAN :
             get_interface_call(
                 [ ifname |-> wg0, spill_private_key |-> spill_private_key,
                   spill_preshared_keys |-> spill_preshared_keys,
                   messages |-> Dump(dev, shapes, <<Len(shapes)>>) ])
    /\ pc' = "returned"

(* The end of a mutation: the device is handed to __set, unless building   *)
(* it raised.                                                              *)
Submit(device) ==
    IF IsRaise(device)
    THEN /\ sent' = sent
         /\ ret' = device
    ELSE /\ sent' = Append(sent, WireGuard__set(device))
         /\ ret' = [t |-> "ack"]

(* Lines 76-99.                                                            *)
set_interface ==
    /\ pc = "idle"
    /\ \E private_key \in {None} \cup SecretKeyArgs,
          listen_port \in {None, Num(51820)},
          fwmark \in {None, Num(1)},
          replace_peers \in {Bool(FALSE), Bool(TRUE)} :
          /\ call' = [ op |-> "set_interface", ifname |-> wg0,
                       private_key |-> private_key, listen_port |-> listen_port,
                       fwmark |-> fwmark, replace_peers |-> replace_peers ]
          /\ Submit(set_interface_device(wg0, private_key, listen_port, fwmark,
                                         replace_peers))
    /\ pc' = "returned"
    /\ UNCHANGED reply

(* Lines 101-116.                                                          *)
remove_peers ==
    /\ pc = "idle"
    /\ \E public_keys \in SeqsUpTo(PublicKeyArgs, MaxKeys) :
          /\ call' = [ op |-> "remove_peers", ifname |-> wg0,
                       public_keys |-> public_keys ]
          /\ Submit(remove_peers_device(wg0, public_keys))
    /\ pc' = "returned"
    /\ UNCHANGED reply

(* Lines 118-159.                                                          *)
set_peer ==
    /\ pc = "idle"
    /\ \E public_key \in PublicKeyArgs,
          preshared_key \in {None} \cup SecretKeyArgs,
          endpoint \in {None, Name("192.0.2.1:51820")},
          persistent_keepalive_interval \in {None, Num(25)},
          allowedips \in AllowedIPArgs,
          replace_allowedips \in {None, Bool(FALSE), Bool(TRUE)} :
          /\ call' = [ op |-> "set_peer", ifname |-> wg0,
                       public_key |-> public_key,
                       preshared_key |-> preshared_key, endpoint |-> endpoint,
                       persistent_keepalive_interval |->
                           persistent_keepalive_interval,
                       allowedips |-> allowedips,
                       replace_allowedips |-> replace_allowedips ]
          /\ Submit(set_peer_device(wg0, public_key, preshared_key, endpoint,
                                    persistent_keepalive_interval, allowedips,
                                    replace_allowedips))
    /\ pc' = "returned"
    /\ UNCHANGED reply

(* Lines 161-176.                                                          *)
replace_allowedips ==
    /\ pc = "idle"
    /\ \E public_keys \in SeqsUpTo(PublicKeyArgs, MaxKeys) :
          /\ call' = [ op |-> "replace_allowedips", ifname |-> wg0,
                       public_keys |-> public_keys ]
          /\ Submit(replace_allowedips_device(wg0, public_keys))
    /\ pc' = "returned"
    /\ UNCHANGED reply

Next ==
    \/ get_interface
    \/ set_interface
    \/ remove_peers
    \/ set_peer
    \/ replace_allowedips

Spec == Init /\ [][Next]_vars

----------------------------------------------------------------------------
(* Properties of the mutation builders.                                    *)

Returned(op) == pc = "returned" /\ call.op = op

Submitted == pc = "returned" /\ ~IsRaise(ret) /\ Len(sent) = 1

(* The length in bytes of a public key argument: of the bytes given, or of *)
(* the bytes its text decodes to (-1 when the text does not decode).       *)
PublicKeyLength(k) ==
    IF k.t = "bytes" THEN k.len
    ELSE LET d == b64decode(k) IN IF IsRaise(d) THEN -1 ELSE d.len

(* The bytes a public key argument stands for.                             *)
PublicKeyBytes(k) == IF k.t = "bytes" THEN k ELSE Bytes(PublicKeyLength(k), k.val)

AllPublicKeysValid(keys) ==
    \A i \in 1..Len(keys) : PublicKeyLength(keys[i]) = KeyLen

BadKeySupplied ==
    \/ /\ call.op = "set_interface"
       /\ call.private_key # None
       /\ len(call.private_key) # KeyLen
    \/ /\ call.op \in {"remove_peers", "replace_allowedips"}
       /\ ~AllPublicKeysValid(call.public_keys)
    \/ /\ call.op = "set_peer"
       /\ \/ PublicKeyLength(call.public_key) # KeyLen
          \/ call.preshared_key # None /\ len(call.preshared_key) # KeyLen

(* C2: in set_interface, set_peer, remove_peers and replace_allowedips, a  *)
(* supplied key that is not 32 bytes long (a public key after base64       *)
(* decoding when given as text, at any position of the argument list; a    *)
(* private or preshared key as given) makes the call raise with nothing    *)
(* handed to the transport.                                                *)
C2_BadKeySendsNothing ==
    (pc = "returned" /\ BadKeySupplied) => (IsRaise(ret) /\ sent = <<>>)

(* remove_peers with a valid first key and a second key given as text     *)
(* that decodes to 33 bytes: refused, nothing sent.                        *)
C2_Witness ==
    /\ Returned("remove_peers")
    /\ Len(call.public_keys) = 2
    /\ PublicKeyLength(call.public_keys[1]) = KeyLen
    /\ call.public_keys[2].t = "str"
    /\ PublicKeyLength(call.public_keys[2]) = KeyLen + 1
    /\ IsRaise(ret)
    /\ sent = <<>>

SentPeers == get_attr(sent[1].msg, "WGDEVICE_A_PEERS")

(* C7: the peer record set_peer submits carries the replace-allowed-ips    *)
(* flag exactly when replace_allowedips is True, or is None while          *)
(* allowedips is supplied (an empty list included); an explicit False is   *)
(* kept.                                                                   *)
C7_ReplaceFlagInference ==
    (Returned("set_peer") /\ ~IsRaise(ret)) =>
        /\ Len(sent) = 1
        /\ SentPeers # None
        /\ Len(SentPeers.items) = 1
        /\ LET flags == get_attr(SentPeers.items[1], "WGPEER_A_FLAGS")
           IN  /\ flags \in {None, Flag("REPLACE_ALLOWEDIPS")}
               /\ (flags = Flag("REPLACE_ALLOWEDIPS")) <=>
                     \/ call.replace_allowedips = Bool(TRUE)
                     \/ /\ call.replace_allowedips = None
                        /\ call.allowedips # None

(* set_peer with an empty allowedips list and no replace_allowedips: the   *)
(* flag is inferred.                                                       *)
C7_Witness ==
    /\ Returned("set_peer")
    /\ Submitted
    /\ call.allowedips = List(<<>>)
    /\ call.replace_allowedips = None
    /\ get_attr(SentPeers.items[1], "WGPEER_A_FLAGS") = Flag("REPLACE_ALLOWEDIPS")

(* C8 as stated: set_interface with replace_peers=True, whatever the other *)
(* arguments, submits a message with the replace-peers flag and a peer     *)
(* list that is present and empty.                                         *)
C8_Original ==
    (Returned("set_interface") /\ truthy(call.replace_peers)) =>
        /\ Submitted
        /\ get_attr(sent[1].msg, "WGDEVICE_A_FLAGS") = Flag("REPLACE_PEERS")
        /\ SentPeers = List(<<>>)

(* C8 amended: set_interface with replace_peers=True and a private key     *)
(* that is absent or of length 32 submits one WG_CMD_SET_DEVICE message    *)
(* with the replace-peers flag and no peer-list attribute at all.          *)
C8_ReplacePeersNoPeerList ==
    ( /\ Returned("set_interface")
      /\ truthy(call.replace_peers)
      /\ (call.private_key = None \/ len(call.private_key) = KeyLen) ) =>
        /\ Submitted
        /\ sent[1].msg.cmd = "WG_CMD_SET_DEVICE"
        /\ get_attr(sent[1].msg, "WGDEVICE_A_IFNAME") = call.ifname
        /\ get_attr(sent[1].msg, "WGDEVICE_A_FLAGS") = Flag("REPLACE_PEERS")
        /\ SentPeers = None

(* set_interface(ifname, replace_peers=True) alone, submitted.             *)
C8_Witness ==
    /\ Returned("set_interface")
    /\ truthy(call.replace_peers)
    /\ call.private_key = None
    /\ call.listen_port = None
    /\ call.fwmark = None
    /\ Submitted
    /\ Len(sent[1].msg.attrs) = 2

(* C9: remove_peers with n >= 0 valid keys submits exactly one device      *)
(* message whose peer list is present and holds n records in argument      *)
(* order, the i-th being exactly the i-th public key and the remove-me     *)
(* flag; with no key the list is present and empty.                        *)
C9_RemovePeersRecords ==
    (Returned("remove_peers") /\ AllPublicKeysValid(call.public_keys)) =>
        /\ Submitted
        /\ sent[1].msg.cmd = "WG_CMD_SET_DEVICE"
        /\ SentPeers # None
        /\ Len(SentPeers.items) = Len(call.public_keys)
        /\ \A i \in 1..Len(call.public_keys) :
              SentPeers.items[i].attrs =
                  << <<"WGPEER_A_PUBLIC_KEY", PublicKeyBytes(call.public_keys[i])>>,
                     <<"WGPEER_A_FLAGS", Flag("REMOVE_ME")>> >>

(* remove_peers with two different valid keys, one of them given as text.  *)
C9_Witness ==
    /\ Returned("remove_peers")
    /\ Submitted
    /\ Len(call.public_keys) = 2
    /\ call.public_keys[1].t = "str"
    /\ call.public_keys[2].t = "bytes"
    /\ Len(SentPeers.items) = 2
    /\ SentPeers.items[1] # SentPeers.items[2]

(* remove_peers with no key: a message with an empty peer list.            *)
C9_WitnessNoKey ==
    /\ Returned("remove_peers")
    /\ call.public_keys = <<>>
    /\ Submitted
    /\ SentPeers = List(<<>>)

(* C10 as stated: every peer record replace_allowedips submits holds the   *)
(* public key, the replace-allowed-ips flag and an allowed-IP list that is *)
(* present and empty.                                                      *)
C10_Original ==
    (Returned("replace_allowedips") /\ AllPublicKeysValid(call.public_keys)) =>
        /\ Submitted
        /\ SentPeers # None
        /\ Len(SentPeers.items) = Len(call.public_keys)
        /\ \A i \in 1..Len(call.public_keys) :
              LET p == SentPeers.items[i]
              IN  /\ get_attr(p, "WGPEER_A_PUBLIC_KEY") =
                        PublicKeyBytes(call.public_keys[i])
                  /\ get_attr(p, "WGPEER_A_FLAGS") = Flag("REPLACE_ALLOWEDIPS")
                  /\ get_attr(p, "WGPEER_A_ALLOWEDIPS") = List(<<>>)
                  /\ Len(p.attrs) = 3

(* C10 amended: every peer record replace_allowedips submits is exactly    *)
(* the public key and the replace-allowed-ips flag; it carries no          *)
(* allowed-IP list attribute.                                              *)
C10_ReplaceAllowedipsRecords ==
    (Returned("replace_allowedips") /\ AllPublicKeysValid(call.public_keys)) =>
        /\ Submitted
        /\ SentPeers # None
        /\ Len(SentPeers.items) = Len(call.public_keys)
        /\ \A i \in 1..Len(call.public_keys) :
              LET p == SentPeers.items[i]
              IN  /\ p.attrs =
                        << <<"WGPEER_A_PUBLIC_KEY",
                             PublicKeyBytes(call.public_keys[i])>>,
                           <<"WGPEER_A_FLAGS", Flag("REPLACE_ALLOWEDIPS")>> >>
                  /\ get_attr(p, "WGPEER_A_ALLOWEDIPS") = None

(* replace_allowedips with two valid keys, submitted.                      *)
C10_Witness ==
    /\ Returned("replace_allowedips")
    /\ Submitted
    /\ Len(call.public_keys) = 2
    /\ call.public_keys[1] # call.public_keys[2]
    /\ Len(SentPeers.items) = 2

----------------------------------------------------------------------------
(* Properties of get_interface.                                            *)

GotInfo == Returned("get_interface") /\ ~IsRaise(ret)

(* The peer records of a response in arrival order: message order, then    *)
(* record order.                                                           *)
RECURSIVE Arrival(_)
Arrival(messages) ==
    IF messages = <<>> THEN <<>>
    ELSE or_empty(get_attr(Head(messages), "WGDEVICE_A_PEERS"))
         \o Arrival(Tail(messages))

KeyOf(record) == get_attr(record, "WGPEER_A_PUBLIC_KEY")

RawPresharedKey(record) == get_attr(record, "WGPEER_A_PRESHARED_KEY")

RecordsOf(messages, k) == SelectSeq(Arrival(messages), LAMBDA r : KeyOf(r) = k)

Networks(record) ==
    LET ips == or_empty(get_attr(record, "WGPEER_A_ALLOWEDIPS"))
    IN  [j \in 1..Len(ips) |->
            [t |-> "ip_network", addr |-> ips[j].addr, prefixlen |-> ips[j].cidr]]

RECURSIVE ConcatNetworks(_)
ConcatNetworks(records) ==
    IF records = <<>> THEN <<>>
    ELSE Networks(Head(records)) \o ConcatNetworks(Tail(records))

EntriesOf(k) == { i \in 1..Len(ret.peers) : ret.peers[i][1] = k }

(* C1: the snapshot has exactly one entry per public key of the response;  *)
(* its scalar fields are those of the first record of that key in arrival  *)
(* order (the preshared key as the disclosure flag presents it), and its   *)
(* allowed IPs are the concatenation, in arrival order, of the allowed IPs *)
(* of all the records of that key.                                         *)
C1_Reassembly ==
    GotInfo =>
        LET flat == Arrival(reply)
            keys == { KeyOf(flat[i]) : i \in 1..Len(flat) } \ {None}
        IN  /\ \A i \in 1..Len(ret.peers) :
                  ret.peers[i][1] # None => ret.peers[i][1] \in keys
            /\ \A k \in keys :
                  /\ Cardinality(EntriesOf(k)) = 1
                  /\ LET e     == ret.peers[CHOOSE i \in EntriesOf(k) : TRUE][2]
                         first == Head(RecordsOf(reply, k))
                         raw   == RawPresharedKey(first)
                     IN  /\ e.preshared_key =
                               IF call.spill_preshared_keys THEN raw
                               ELSE Bool(raw # None /\ raw # Bytes(32, 0))
                         /\ e.last_handshake_time =
                               get_attr(first, "WGPEER_A_LAST_HANDSHAKE_TIME")
                         /\ e.persistent_keepalive_interval =
                               get_attr(first,
                                        "WGPEER_A_PERSISTENT_KEEPALIVE_INTERVAL")
                         /\ e.tx_bytes = get_attr(first, "WGPEER_A_TX_BYTES")
                         /\ e.rx_bytes = get_attr(first, "WGPEER_A_RX_BYTES")
                         /\ e.protocol_version =
                               get_attr(first, "WGPEER_A_PROTOCOL_VERSION")
                         /\ e.allowedips = ConcatNetworks(RecordsOf(reply, k))

(* A response of two fragments whose second repeats the key of a record of *)
(* the first with no scalar attribute and two allowed IPs: the entry keeps *)
(* the first record's scalars and has two more allowed IPs.                *)
C1_Witness ==
    /\ GotInfo
    /\ Len(reply) = 2
    /\ LET one == or_empty(get_attr(reply[1], "WGDEVICE_A_PEERS"))
           two == or_empty(get_attr(reply[2], "WGDEVICE_A_PEERS"))
       IN  /\ Len(one) = 1
           /\ Len(two) = 1
           /\ KeyOf(one[1]) = KeyOf(two[1])
           /\ KeyOf(one[1]) # None
           /\ get_attr(one[1], "WGPEER_A_TX_BYTES") # None
           /\ Len(Networks(one[1])) = 1
           /\ get_attr(two[1], "WGPEER_A_TX_BYTES") = None
           /\ Len(Networks(two[1])) = 2
           /\ Len(ret.peers) = 1
           /\ ret.peers[1][2].tx_bytes = get_attr(one[1], "WGPEER_A_TX_BYTES")
           /\ Len(ret.peers[1][2].allowedips) = 3

(* The key-typed attributes of a response.                                 *)
KeyAttributes(messages) ==
    { get_attr(messages[k], "WGDEVICE_A_PRIVATE_KEY") : k \in 1..Len(messages) }
    \cup
    { get_attr(messages[k], "WGDEVICE_A_PUBLIC_KEY") : k \in 1..Len(messages) }
    \cup
    { KeyOf(Arrival(messages)[i]) : i \in 1..Len(Arrival(messages)) }
    \cup
    { RawPresharedKey(Arrival(messages)[i]) : i \in 1..Len(Arrival(messages)) }

(* C3: a key-typed attribute of any length other than 32 anywhere in the   *)
(* response makes the query fail, whatever the disclosure flags.           *)
C3_BadKeyFailsQuery ==
    ( /\ Returned("get_interface")
      /\ \E key \in KeyAttributes(reply) \ {None} : key.len # 32 )
    => IsRaise(ret)

(* C4: a peer record without a public key makes the query fail, and no     *)
(* snapshot has an entry whose key is None.                                *)
C4_MissingKeyFailsQuery ==
    Returned("get_interface") =>
        /\ (\E i \in 1..Len(Arrival(reply)) : KeyOf(Arrival(reply)[i]) = None)
               => IsRaise(ret)
        /\ ~IsRaise(ret) => \A i \in 1..Len(ret.peers) : ret.peers[i][1] # None

(* The response with every non-zero 32-byte preshared key replaced by      *)
(* G of it.                                                                *)
RekeyPeer(record, G(_)) ==
    [record EXCEPT !.attrs =
        [i \in 1..Len(record.attrs) |->
            IF /\ record.attrs[i][1] = "WGPEER_A_PRESHARED_KEY"
               /\ record.attrs[i][2].len = 32
               /\ record.attrs[i][2].val # 0
            THEN <<record.attrs[i][1], G(record.attrs[i][2])>>
            ELSE record.attrs[i]]]

RekeyMessage(message, G(_)) ==
    [message EXCEPT !.attrs =
        [i \in 1..Len(message.attrs) |->
            IF message.attrs[i][1] = "WGDEVICE_A_PEERS"
            THEN <<message.attrs[i][1],
                   List([j \in 1..Len(message.attrs[i][2].items) |->
                            RekeyPeer(message.attrs[i][2].items[j], G)])>>
            ELSE message.attrs[i]]]

Rekey(messages, G(_)) ==
    [k \in 1..Len(messages) |-> RekeyMessage(messages[k], G)]

OneKey(key) == [key EXCEPT !.val = 9]

(* C5: with spill_preshared_keys off, every entry's preshared key is a     *)
(* boolean: False when the first record of the peer has no preshared key   *)
(* or 32 zero bytes, True when it has 32 bytes that are not all zero; and  *)
(* the outcome is the one of the response with every non-zero preshared    *)
(* key replaced by one fixed key, so that two responses that differ only   *)
(* in the values of such keys give the same snapshot.                      *)
C5_PresharedKeyReduced ==
    (Returned("get_interface") /\ ~call.spill_preshared_keys) =>
        /\ ~IsRaise(ret) =>
              \A i \in 1..Len(ret.peers) :
                  LET e   == ret.peers[i][2]
                      raw == RawPresharedKey(Head(RecordsOf(reply, ret.peers[i][1])))
                  IN  /\ e.preshared_key \in {Bool(FALSE), Bool(TRUE)}
                      /\ (raw = None \/ raw = Bytes(32, 0))
                             => e.preshared_key = Bool(FALSE)
                      /\ (raw # None /\ raw.len = 32 /\ raw.val # 0)
                             => e.preshared_key = Bool(TRUE)
        /\ WireGuardInfo(Rekey(reply, OneKey), call.ifname,
                         call.spill_private_key, FALSE) = ret

(* A snapshot taken with spill_preshared_keys off of two peers, one with a *)
(* zero and one with a non-zero preshared key.                             *)
C5_Witness ==
    /\ GotInfo
    /\ ~call.spill_preshared_keys
    /\ Len(ret.peers) = 2
    /\ RawPresharedKey(Arrival(reply)[1]) = Bytes(32, 0)
    /\ RawPresharedKey(Arrival(reply)[2]) = Bytes(32, 1)
    /\ ret.peers[1][2].preshared_key = Bool(FALSE)
    /\ ret.peers[2][2].preshared_key = Bool(TRUE)
    /\ Rekey(reply, OneKey) # reply

(* The response without its private-key attributes.                       *)
WithoutPrivateKey(messages) ==
    [k \in 1..Len(messages) |->
        [messages[k] EXCEPT !.attrs =
            SelectSeq(@, LAMBDA a : a[1] # "WGDEVICE_A_PRIVATE_KEY")]]

(* C6: with spill_private_key off the outcome of the query, the snapshot   *)
(* and what it prints are those of the response without its private-key   *)
(* attribute, so that they are the same whatever the presence, value or    *)
(* length of that attribute; the snapshot has no private_key.              *)
C6_PrivateKeyNotRead ==
    (Returned("get_interface") /\ ~call.spill_private_key) =>
        LET other == WireGuardInfo(WithoutPrivateKey(reply), call.ifname, FALSE,
                                   call.spill_preshared_keys)
        IN  /\ other = ret
            /\ ~IsRaise(ret) =>
                  /\ "private_key" \notin DOMAIN ret
                  /\ repr(other) = repr(ret)

(* A snapshot taken with spill_private_key off of a response whose private *)
(* key is 31 bytes long.                                                   *)
C6_Witness ==
    /\ GotInfo
    /\ ~call.spill_private_key
    /\ get_attr(reply[1], "WGDEVICE_A_PRIVATE_KEY") = Bytes(31, 5)
    /\ WithoutPrivateKey(reply) # reply

====
